---- MODULE Spec2Model ----
(***************************************************************************)
(* DatasetGraph (mindspore/train/callback/_dataset_graph.py): the walk     *)
(* that packages a serialized dataset pipeline (the value json.loads       *)
(* returns) into a lineage_pb2.DatasetGraph message.                       *)
(*                                                                         *)
(* JSON values are records with one shape, so that any two of them can be  *)
(* compared: t is the Python type json.loads gives the value, and exactly  *)
(* one of s, n, b, l, m carries its payload.  A dict is the sequence of    *)
(* its items in iteration order, keys unique.  A protobuf map field is a   *)
(* set of entries with unique keys; a repeated field is a sequence.        *)
(***************************************************************************)
EXTENDS FiniteSets, Integers, Sequences, TLC

\* pc                   "call" before the call, then "return" or "raise"
\* json_str             the serialized pipeline (line 36), kept as the value
\*                      json.loads gives for it; never written after line 36
\* dataset_dict         the dict of line 37, as the walk changes it
\* children             the list popped at line 40, as the walk changes it
\* dataset_graph_proto  the message of line 38, as populated so far
\* key, value, operation, message
\*                      the arguments of a direct call of _package_parameter
\*                      or _package_enhancement_operation
\* raised               the exception that ended the call and the key it names
VARIABLES pc, json_str, dataset_dict, children, dataset_graph_proto,
          key, value, operation, message, raised

vars == <<pc, json_str, dataset_dict, children, dataset_graph_proto,
          key, value, operation, message, raised>>

(***************************************************************************)
(* Bounds of the model.                                                    *)
(***************************************************************************)
MaxListLen == 2
MaxItems == 2
MaxNodes == 4

(***************************************************************************)
(* Python values after json.loads.                                         *)
(***************************************************************************)
Blank == [t |-> "null", s |-> "", n |-> 0, b |-> FALSE, l |-> <<>>, m |-> <<>>]
None == Blank
Str(x) == [Blank EXCEPT !.t = "str", !.s = x]
Bool(x) == [Blank EXCEPT !.t = "bool", !.b = x]
Int_(x) == [Blank EXCEPT !.t = "int", !.n = x]
Float(x) == [Blank EXCEPT !.t = "float", !.s = x]
List(x) == [Blank EXCEPT !.t = "list", !.l = x]
Dict(x) == [Blank EXCEPT !.t = "dict", !.m = x]
Item(k, v) == [k |-> k, v |-> v]

\* isinstance(value, cls): bool is a subclass of int in Python.
isinstance(v, cls) ==
    CASE cls = "str" -> v.t = "str"
      [] cls = "bool" -> v.t = "bool"
      [] cls = "int" -> v.t \in {"int", "bool"}
      [] cls = "float" -> v.t = "float"
      [] cls = "list" -> v.t = "list"
      [] cls = "dict" -> v.t = "dict"
      [] OTHER -> FALSE

\* Python truth value of a JSON value (`if value`, `if children`, `if child`).
truthy(v) ==
    CASE v.t = "null" -> FALSE
      [] v.t = "str" -> v.s # ""
      [] v.t = "bool" -> v.b
      [] v.t = "int" -> v.n # 0
      [] v.t = "float" -> v.s \notin {"0.0", "-0.0"}
      [] v.t = "list" -> v.l # <<>>
      [] v.t = "dict" -> v.m # <<>>

\* `key in d`, d[key] and d.pop(key) of a dict.
has_key(d, k) == \E i \in 1..Len(d.m) : d.m[i].k = k
get(d, k) == d.m[CHOOSE i \in 1..Len(d.m) : d.m[i].k = k].v
\* Faulty variant of pop: d.popitem(), which removes the last item whatever its key.
popitem(d, k) == Dict(SubSeq(d.m, 1, Len(d.m) - 1))
pop(d, k) == Dict(SelectSeq(d.m, LAMBDA it : it.k # k))

(***************************************************************************)
(* lineage_pb2 messages, as this file populates them.                      *)
(***************************************************************************)
EmptyParameter ==
    [mapStr |-> {}, mapBool |-> {}, mapInt |-> {}, mapDouble |-> {}, mapStrList |-> {}]
EmptyOperation ==
    [operationParam |-> EmptyParameter, size |-> <<>>, weights |-> <<>>]
EmptyGraph ==
    [children |-> <<>>, parameter |-> EmptyParameter, operations |-> <<>>,
     sampler |-> EmptyOperation]

\* map[key] = v of a protobuf map field.
set_item(map, k, v) == {e \in map : e.k # k} \cup {Item(k, v)}
has_entry(map, k) == \E e \in map : e.k = k
entry(map, k) == (CHOOSE e \in map : e.k = k).v
\* map[key].strValue.extend(vs): the entry is created when absent.
extend_item(map, k, vs) ==
    set_item(map, k, (IF has_entry(map, k) THEN entry(map, k) ELSE <<>>) \o vs)

\* What a call leaves behind: the message as populated so far, and the
\* exception that ended the call ("" when it returned).
Return(msg) == [message |-> msg, raised |-> "", key |-> ""]
Raise(msg, exc, k) == [message |-> msg, raised |-> exc, key |-> k]

(***************************************************************************)
(* _package_parameter, lines 113-128.                                      *)
(***************************************************************************)
\* Faulty variant of replace_none: the null elements are kept.
keep_none(x) == x
replace_none(x) == IF x.t = "null" THEN Str("") ELSE x

\* Faulty variant of _package_parameter: the int test comes before the bool test.
_package_parameter_int_first(k, v, msg) ==
    IF isinstance(v, "str") THEN
        Return([msg EXCEPT !.mapStr = set_item(@, k, v)])
    ELSE IF isinstance(v, "int") THEN
        Return([msg EXCEPT !.mapInt = set_item(@, k, v)])
    ELSE IF isinstance(v, "bool") THEN
        Return([msg EXCEPT !.mapBool = set_item(@, k, v)])
    ELSE IF isinstance(v, "float") THEN
        Return([msg EXCEPT !.mapDouble = set_item(@, k, v)])
    ELSE IF isinstance(v, "list") /\ k # "operations" THEN
        IF truthy(v) THEN
            Return([msg EXCEPT !.mapStrList = extend_item(@, k, [i \in 1..Len(v.l) |-> replace_none(v.l[i])])])
        ELSE Return(msg)
    ELSE IF v.t = "null" THEN
        Return([msg EXCEPT !.mapStr = set_item(@, k, Str("None"))])
    ELSE Raise(msg, "ValueError", k)

_package_parameter(k, v, msg) ==
    IF isinstance(v, "str") THEN
        Return([msg EXCEPT !.mapStr = set_item(@, k, v)])
    ELSE IF isinstance(v, "bool") THEN
        Return([msg EXCEPT !.mapBool = set_item(@, k, v)])
    ELSE IF isinstance(v, "int") THEN
        Return([msg EXCEPT !.mapInt = set_item(@, k, v)])
    ELSE IF isinstance(v, "float") THEN
        Return([msg EXCEPT !.mapDouble = set_item(@, k, v)])
    ELSE IF isinstance(v, "list") /\ k # "operations" THEN
        IF truthy(v) THEN
            Return([msg EXCEPT !.mapStrList = extend_item(@, k, [i \in 1..Len(v.l) |-> replace_none(v.l[i])])])
        ELSE Return(msg)
    ELSE IF v.t = "null" THEN
        Return([msg EXCEPT !.mapStr = set_item(@, k, Str("None"))])
    ELSE Raise(msg, "ValueError", k)

\* One({F(r) : r \in {call}}) names the result r of a call once and gives
\* F(r): the sequencing of Python statements.  When r.raised # "" the call
\* raised, the exception propagates, and r.message is the message as far as
\* it was populated (messages are populated in place).
One(S) == CHOOSE y \in S : TRUE

(***************************************************************************)
(* _package_enhancement_operation, lines 94-101.                           *)
(***************************************************************************)
\* all(isinstance(ele, int) for ele in value), line 96.
all_int(v) == \A i \in 1..Len(v.l) : isinstance(v.l[i], "int")

\* The body of the loop, lines 95-101, for one item of the operation.
_package_enhancement_operation_item(k, v, msg) ==
    IF isinstance(v, "list") THEN
        IF all_int(v) THEN Return([msg EXCEPT !.size = @ \o v.l])
        ELSE Return([msg EXCEPT !.weights = @ \o v.l])
    ELSE
        One({[r EXCEPT !.message = [msg EXCEPT !.operationParam = r.message]] :
                r \in {_package_parameter(k, v, msg.operationParam)}})

RECURSIVE _package_enhancement_operation_items(_, _, _)
_package_enhancement_operation_items(items, i, msg) ==
    IF i > Len(items) THEN Return(msg)
    ELSE One({IF r.raised # "" THEN r
              ELSE _package_enhancement_operation_items(items, i + 1, r.message) :
                r \in {_package_enhancement_operation_item(items[i].k, items[i].v, msg)}})

\* operation.items() of a value that is no dict raises AttributeError.
_package_enhancement_operation(op, msg) ==
    IF ~isinstance(op, "dict") THEN Raise(msg, "AttributeError", "items")
    ELSE _package_enhancement_operation_items(op.m, 1, msg)

(***************************************************************************)
(* _package_current_dataset, lines 71-84.                                  *)
(***************************************************************************)
\* One turn of the loop of lines 73-77: message.operations.add() is evaluated
\* as an argument, so the entry is in the container before it is populated,
\* and is there, as far as it got, when its encoding raises.
_package_operator(operator, msg) ==
    One({[r EXCEPT !.message = [msg EXCEPT !.operations = Append(@, r.message)]] :
            r \in {_package_enhancement_operation(operator, EmptyOperation)}})

RECURSIVE _package_operators(_, _, _)
_package_operators(operators, i, msg) ==
    IF i > Len(operators) THEN Return(msg)
    ELSE One({IF r.raised # "" THEN r
              ELSE _package_operators(operators, i + 1, r.message) :
                r \in {_package_operator(operators[i], msg)}})

\* `for operator in value` over a truthy value: the elements of a list, the
\* keys of a dict; a number is not iterable.  (A non-empty string under
\* "operations" is outside the inputs this model draws.)
iterate(v) ==
    CASE v.t = "list" -> v.l
      [] v.t = "dict" -> [i \in 1..Len(v.m) |-> Str(v.m[i].k)]

\* The body of the loop, lines 72-84, for one item of the stage.
_package_current_dataset_item(k, v, msg) ==
    IF truthy(v) /\ k = "operations" THEN
        IF v.t \in {"bool", "int", "float"} THEN Raise(msg, "TypeError", k)
        ELSE _package_operators(iterate(v), 1, msg)
    ELSE IF truthy(v) /\ k = "sampler" THEN
        One({[r EXCEPT !.message = [msg EXCEPT !.sampler = r.message]] :
                r \in {_package_enhancement_operation(v, msg.sampler)}})
    ELSE
        One({[r EXCEPT !.message = [msg EXCEPT !.parameter = r.message]] :
                r \in {_package_parameter(k, v, msg.parameter)}})

RECURSIVE _package_current_dataset_items(_, _, _)
_package_current_dataset_items(items, i, msg) ==
    IF i > Len(items) THEN Return(msg)
    ELSE One({IF r.raised # "" THEN r
              ELSE _package_current_dataset_items(items, i + 1, r.message) :
                r \in {_package_current_dataset_item(items[i].k, items[i].v, msg)}})

_package_current_dataset(op, msg) == _package_current_dataset_items(op.m, 1, msg)

(***************************************************************************)
(* _package_children, lines 54-61.  The result also carries the list as    *)
(* the walk leaves it: child.pop("children") changes the child in place.   *)
(* (A children value that is truthy and no list, and a child that is       *)
(* truthy and no dict, are outside the inputs this model draws.)           *)
(***************************************************************************)
WithChildren(r, cs) ==
    [message |-> r.message, raised |-> r.raised, key |-> r.key, children |-> cs]

RECURSIVE _package_children(_, _)

\* Lines 57-61 for a child just added: its message is populated from
\* EmptyGraph, first by the grandchildren, then by its own parameters.
_package_added_child(child) ==
    IF ~has_key(child, "children") THEN Raise(EmptyGraph, "KeyError", "children")
    ELSE IF truthy(get(child, "children")) THEN
        One({IF r.raised # "" THEN Raise(r.message, r.raised, r.key)
             ELSE _package_current_dataset(pop(child, "children"), r.message) :
                r \in {_package_children(get(child, "children"), EmptyGraph)}})
    ELSE _package_current_dataset(pop(child, "children"), EmptyGraph)

\* Faulty variant of _package_child: the new child message is put first in the
\* parent's children instead of last.
_package_child_first(child, msg) ==
    IF ~truthy(child) THEN WithChildren(Return(msg), child)
    ELSE One({WithChildren(
                [r EXCEPT !.message = [msg EXCEPT !.children = <<r.message>> \o @]],
                IF has_key(child, "children") THEN pop(child, "children") ELSE child) :
                r \in {_package_added_child(child)}})

\* Lines 55-61 for one child; the result's children field is the child as
\* the call leaves it.  children.add() puts the child's message in the
\* parent before it is populated, so it is there, as far as it got, when
\* the child's own encoding raises.
_package_child(child, msg) ==
    IF ~truthy(child) THEN WithChildren(Return(msg), child)
    ELSE One({WithChildren(
                [r EXCEPT !.message = [msg EXCEPT !.children = Append(@, r.message)]],
                IF has_key(child, "children") THEN pop(child, "children") ELSE child) :
                r \in {_package_added_child(child)}})

RECURSIVE _package_children_from(_, _, _)
_package_children_from(cs, i, msg) ==
    IF i > Len(cs) THEN WithChildren(Return(msg), cs)
    ELSE One({IF r.raised # "" THEN WithChildren(r, [cs EXCEPT ![i] = r.children])
              ELSE _package_children_from([cs EXCEPT ![i] = r.children],
                                          i + 1, r.message) :
                r \in {_package_child(cs[i], msg)}})

_package_children(cs, msg) ==
    One({WithChildren(r, List(r.children)) : r \in {_package_children_from(cs.l, 1, msg)}})

(***************************************************************************)
(* package_dataset_graph, lines 38-44, from the dict json.loads returned.  *)
(* The result carries the locals dataset_dict and children as the call     *)
(* leaves them (children is None when no "children" key was popped).       *)
(***************************************************************************)
Walked(r, d, cs) ==
    [message |-> r.message, raised |-> r.raised, key |-> r.key,
     dataset_dict |-> d, children |-> cs]

package_dataset_graph(d) ==
    IF has_key(d, "children") THEN
        IF truthy(get(d, "children")) THEN
            One({IF c.raised # "" THEN Walked(c, pop(d, "children"), c.children)
                 ELSE One({Walked(r, pop(d, "children"), c.children) :
                        r \in {_package_current_dataset(pop(d, "children"), c.message)}}) :
                    c \in {_package_children(get(d, "children"), EmptyGraph)}})
        ELSE One({Walked(r, pop(d, "children"), get(d, "children")) :
                    r \in {_package_current_dataset(pop(d, "children"), EmptyGraph)}})
    ELSE Walked(Return(EmptyGraph), d, None)

(***************************************************************************)
(* The inputs the model draws.                                             *)
(***************************************************************************)
SeqsUpTo(S, n) == UNION {[1..k -> S] : k \in 0..n}

Scalars ==
    {Str("Map"), Str(""), Bool(TRUE), Bool(FALSE), Int_(0), Int_(4), Float("0.5"), None}
Elements == {Int_(4), Bool(TRUE), Float("0.5"), Str("a"), None}
Lists == {List(l) : l \in SeqsUpTo(Elements, MaxListLen)}
NestedMaps == {Dict(<<>>), Dict(<<Item("x", Int_(1))>>)}

\* The calls of _package_parameter the walk can make: a non-empty list
\* reaches it only under a stage key other than "operations" and "sampler"
\* (lines 72, 78, 95).
ParameterKeys == {"op", "operations", "sampler"}
ParameterValues == Scalars \cup Lists \cup NestedMaps
ParameterCalls ==
    {c \in [key : ParameterKeys, value : ParameterValues] :
        (c.value.t = "list" /\ truthy(c.value)) => c.key = "op"}
\* The parameter block a call finds: empty, or holding another key's entry.
Parameters ==
    {EmptyParameter} \cup
    {_package_parameter("name", v, EmptyParameter).message :
        v \in Scalars \cup {List(<<Str("a")>>)}}

\* Operation dicts: up to MaxItems items with distinct keys.
OperationElements == {Int_(4), Bool(TRUE), Float("0.5")}
OperationItems ==
    {Item(k, List(l)) : k \in {"size", "prob"},
                        l \in SeqsUpTo(OperationElements, MaxListLen)}
    \cup {Item("kernel_name", v) : v \in {Str("Resize"), Dict(<<Item("x", Int_(1))>>)}}
Operations ==
    {Dict(m) : m \in {q \in SeqsUpTo(OperationItems, MaxItems) :
                        \A i, j \in 1..Len(q) : i # j => q[i].k # q[j].k}}

\* Pipelines: a root stage over a list of children.  A root with any of
\* RootItems has at most one child element; a root with ChildItems has up to
\* MaxNodes - 1 elements and stages below it, nested to any depth.
Resize == Dict(<<Item("kernel_name", Str("Resize")),
                 Item("size", List(<<Int_(224), Int_(224)>>))>>)
Weighted == Dict(<<Item("prob", List(<<Float("0.1"), Float("0.2")>>))>>)
Unsupported == Dict(<<Item("kernel_name", Str("Resize")),
                      Item("cfg", Dict(<<Item("x", Int_(1))>>))>>)
Sampler == Dict(<<Item("num_samples", List(<<Int_(10), Int_(20)>>)),
                  Item("shuffle", Bool(TRUE))>>)
Cfg == Item("cfg", Dict(<<Item("x", Int_(1))>>))

ChildItems ==
    { <<>>,
      <<Item("op", Str("Source")), Item("num_parallel_workers", Int_(4))>>,
      <<Item("num_parallel_workers", Int_(4)), Cfg>> }
RootItems ==
    ChildItems
    \cup {<<Item("op", v)>> : v \in {Str("Map"), Bool(TRUE), None, Float("0.5"),
             List(<<Str("a"), None, Str("b")>>), List(<<>>), Dict(<<>>)}}
    \cup {<<Cfg>>}
    \cup {<<Item("operations", v)>> : v \in
            {None, Str(""), Int_(0), Bool(FALSE), Dict(<<>>), List(<<>>),
             List(<<Resize>>), List(<<None>>), List(<<Resize, None>>),
             List(<<None, Resize>>), List(<<Resize, Weighted>>),
             List(<<Weighted, Resize>>), List(<<Resize, Unsupported>>)}}
    \cup {<<Item("sampler", v)>> : v \in
            {None, Str(""), Int_(0), Bool(FALSE), Dict(<<>>), List(<<>>),
             Sampler, Unsupported}}
    \cup { <<Item("op", Str("Map")), Cfg>>,
           <<Cfg, Item("op", Str("Map"))>>,
           <<Item("op", Str("Map")), Item("operations", List(<<Resize>>))>>,
           <<Item("operations", List(<<None>>)), Cfg>>,
           <<Item("op", Str("Map")), Item("sampler", None)>>,
           <<Item("sampler", Sampler), Item("operations", List(<<Resize>>))>> }

\* A stage dict: "children" comes second, after the stage's first item.
Stage(items, cs) ==
    IF items = <<>> THEN Dict(<<Item("children", cs)>>)
    ELSE Dict(<<Head(items), Item("children", cs)>> \o Tail(items))

RECURSIVE Forest(_), Child(_)
\* The child-list elements that hold k elements and stages in all.
Child(k) ==
    (IF k = 1 THEN {None} \cup {Dict(items) : items \in ChildItems}
                   \cup {Stage(items, List(<<>>)) : items \in ChildItems}
     ELSE {Stage(items, List(f)) : items \in ChildItems, f \in Forest(k - 1)})
\* The child lists that hold n elements and stages in all.
Forest(n) ==
    IF n = 0 THEN {<<>>}
    ELSE UNION {{<<c>> \o f : c \in Child(k), f \in Forest(n - k)} : k \in 1..n}

Pipelines ==
    {Dict(items) : items \in RootItems}
    \cup {Stage(items, None) : items \in RootItems}
    \cup {Stage(items, List(f)) : items \in RootItems, f \in Forest(0) \cup Forest(1)}
    \cup {Stage(items, List(f)) :
            items \in ChildItems, f \in UNION {Forest(n) : n \in 0..(MaxNodes - 1)}}

(***************************************************************************)
(* Spec: one call of package_dataset_graph on a pipeline, from line 38.    *)
(***************************************************************************)
Idle ==
    /\ key = "" /\ value = None /\ operation = None /\ message = EmptyParameter

Init ==
    /\ pc = "call"
    /\ dataset_dict \in Pipelines
    /\ json_str = dataset_dict
    /\ children = None
    /\ dataset_graph_proto = EmptyGraph
    /\ raised = [exc |-> "", key |-> ""]
    /\ Idle

Call_package_dataset_graph ==
    /\ pc = "call"
    /\ LET r == package_dataset_graph(dataset_dict)
       IN  /\ dataset_dict' = r.dataset_dict
           /\ children' = r.children
           /\ dataset_graph_proto' = r.message
           /\ raised' = [exc |-> r.raised, key |-> r.key]
           /\ pc' = IF r.raised = "" THEN "return" ELSE "raise"
    /\ UNCHANGED <<json_str, key, value, operation, message>>

Next == Call_package_dataset_graph

Spec == Init /\ [][Next]_vars

(***************************************************************************)
(* SpecParameter: one call of _package_parameter.                          *)
(***************************************************************************)
InitParameter ==
    /\ pc = "call"
    /\ \E c \in ParameterCalls : key = c.key /\ value = c.value
    /\ message \in Parameters
    /\ raised = [exc |-> "", key |-> ""]
    /\ operation = None
    /\ dataset_dict = None /\ json_str = None /\ children = None
    /\ dataset_graph_proto = EmptyGraph

Call_package_parameter ==
    /\ pc = "call"
    /\ LET r == _package_parameter(key, value, message)
       IN  /\ message' = r.message
           /\ raised' = [exc |-> r.raised, key |-> r.key]
           /\ pc' = IF r.raised = "" THEN "return" ELSE "raise"
    /\ UNCHANGED <<json_str, dataset_dict, children, dataset_graph_proto,
                   key, value, operation>>

NextParameter == Call_package_parameter

SpecParameter == InitParameter /\ [][NextParameter]_vars

(***************************************************************************)
(* SpecOperation: one call of _package_enhancement_operation on a fresh    *)
(* operation message (an operations.add() entry, or the unset sampler).    *)
(***************************************************************************)
InitOperation ==
    /\ pc = "call"
    /\ operation \in Operations
    /\ message = EmptyOperation
    /\ raised = [exc |-> "", key |-> ""]
    /\ key = "" /\ value = None
    /\ dataset_dict = None /\ json_str = None /\ children = None
    /\ dataset_graph_proto = EmptyGraph

Call_package_enhancement_operation ==
    /\ pc = "call"
    /\ LET r == _package_enhancement_operation(operation, message)
       IN  /\ message' = r.message
           /\ raised' = [exc |-> r.raised, key |-> r.key]
           /\ pc' = IF r.raised = "" THEN "return" ELSE "raise"
    /\ UNCHANGED <<json_str, dataset_dict, children, dataset_graph_proto,
                   key, value, operation>>

NextOperation == Call_package_enhancement_operation

SpecOperation == InitOperation /\ [][NextOperation]_vars

(***************************************************************************)
(* Vocabulary of the properties.                                           *)
(***************************************************************************)
Called == pc # "call"
Returned == pc = "return"
RaisedError == pc = "raise"

WithoutChildren(d) == Dict(SelectSeq(d.m, LAMBDA it : it.k # "children"))
IsStage(v) == v.t = "dict" /\ v.m # <<>>
NonEmpty(v) == ~(v.t = "null" \/ (v.t = "dict" /\ v.m = <<>>))
NotNull(v) == v.t # "null"
\* The list under "children" of a stage, <<>> when there is none.
ChildList(d) ==
    IF has_key(d, "children") /\ get(d, "children").t = "list"
    THEN get(d, "children").l ELSE <<>>
\* The list under "operations" of a stage, <<>> when there is none.
OperationList(d) ==
    IF has_key(d, "operations") /\ get(d, "operations").t = "list"
    THEN get(d, "operations").l ELSE <<>>
Encoded(d) == package_dataset_graph(d)
EncodedOperation(o) == _package_enhancement_operation(o, EmptyOperation)
ParameterMaps(p) == {p.mapStr, p.mapBool, p.mapInt, p.mapDouble}
NoEntry(p, k) ==
    /\ \A map \in ParameterMaps(p) : ~has_entry(map, k)
    /\ ~has_entry(p.mapStrList, k)

RECURSIVE AllNodes(_)
\* Every node of an encoded tree.
AllNodes(g) == {g} \cup UNION {AllNodes(g.children[i]) : i \in 1..Len(g.children)}

RECURSIVE Filled(_)
\* The pipeline with "children": [] given to every stage that has no
\* "children" key.
Filled(d) ==
    IF ~has_key(d, "children") THEN Stage(d.m, List(<<>>))
    ELSE Dict([i \in 1..Len(d.m) |->
            IF d.m[i].k = "children" /\ d.m[i].v.t = "list"
            THEN Item("children", List([j \in 1..Len(d.m[i].v.l) |->
                    IF IsStage(d.m[i].v.l[j]) THEN Filled(d.m[i].v.l[j])
                    ELSE d.m[i].v.l[j]]))
            ELSE d.m[i]])

(***************************************************************************)
(* C1: a stage without a "children" key, the root or a nested child, is    *)
(* encoded like the same stage with "children": []: the call returns, and  *)
(* returns the graph it returns for the pipeline with the key filled in.   *)
(***************************************************************************)
C1_AbsentChildrenAsEmpty ==
    (Called /\ Filled(json_str) # json_str /\ Encoded(Filled(json_str)).raised = "")
        => (Returned /\ dataset_graph_proto = Encoded(Filled(json_str)).message)

(***************************************************************************)
(* C2, as claimed: on return, a stage whose "children" is a non-empty list *)
(* has one encoded child per element of the list, the i-th being the       *)
(* encoding of the i-th element, at every level of the tree.               *)
(***************************************************************************)
RECURSIVE ChildPerElement(_, _)
ChildPerElement(d, g) ==
    LET cs == ChildList(d)
    IN  /\ Len(g.children) = Len(cs)
        /\ \A i \in 1..Len(cs) :
              /\ g.children[i] = Encoded(cs[i]).message
              /\ ChildPerElement(cs[i], g.children[i])

C2_OneChildPerElement ==
    (Returned /\ has_key(json_str, "children")) => ChildPerElement(json_str, dataset_graph_proto)

(***************************************************************************)
(* C2, amended: on return, a stage whose "children" is a non-empty list    *)
(* has one encoded child per non-empty element of the list (null and {}    *)
(* are skipped), the i-th being the encoding of the i-th non-empty         *)
(* element, at every level of the tree.                                    *)
(***************************************************************************)
RECURSIVE ChildPerNonEmptyElement(_, _)
ChildPerNonEmptyElement(d, g) ==
    LET cs == SelectSeq(ChildList(d), NonEmpty)
    IN  /\ Len(g.children) = Len(cs)
        /\ \A i \in 1..Len(cs) :
              /\ g.children[i] = Encoded(cs[i]).message
              /\ ChildPerNonEmptyElement(cs[i], g.children[i])

C2_OneChildPerNonEmptyElement ==
    (Returned /\ has_key(json_str, "children"))
        => ChildPerNonEmptyElement(json_str, dataset_graph_proto)

\* Two different children encoded in order, an empty element skipped between
\* or around them.
C2_Witness ==
    /\ Returned
    /\ Len(ChildList(json_str)) = 3
    /\ \E i \in 1..3 : ~NonEmpty(ChildList(json_str)[i])
    /\ Len(dataset_graph_proto.children) = 2
    /\ dataset_graph_proto.children[1] # dataset_graph_proto.children[2]

(***************************************************************************)
(* C3: on return, no node of the encoded tree holds an entry under         *)
(* "operations" or "sampler" in any of its five parameter maps, and a      *)
(* falsy "sampler" leaves the sampler field unset.                         *)
(***************************************************************************)
C3_StructuralKeysExcluded ==
    Returned =>
        /\ \A g \in AllNodes(dataset_graph_proto) :
              NoEntry(g.parameter, "operations") /\ NoEntry(g.parameter, "sampler")
        /\ (has_key(json_str, "sampler") /\ ~truthy(get(json_str, "sampler")))
              => dataset_graph_proto.sampler = EmptyOperation

(***************************************************************************)
(* C4: dispatch of a scalar writes exactly one entry under the key, in the *)
(* map of the value's own type (a boolean in mapBool, not mapInt; null as  *)
(* "None" in mapStr), and leaves the other four maps as they were, with no *)
(* entry under the key.                                                    *)
(***************************************************************************)
ScalarTypes == {"str", "bool", "int", "float", "null"}
MapOf(t) ==
    CASE t = "str" -> "mapStr" [] t = "bool" -> "mapBool" [] t = "int" -> "mapInt"
      [] t = "float" -> "mapDouble" [] t = "null" -> "mapStr"
MapNames == {"mapStr", "mapBool", "mapInt", "mapDouble", "mapStrList"}

C4_ScalarDispatch ==
    [][(pc = "call" /\ value.t \in ScalarTypes) =>
        /\ pc' = "return"
        /\ \A name \in MapNames :
              IF name = MapOf(value.t)
              THEN /\ {e \in message'[name] : e.k = key}
                        = {Item(key, IF value.t = "null" THEN Str("None") ELSE value)}
                   /\ {e \in message'[name] : e.k # key} = message[name]
              ELSE message'[name] = message[name] /\ ~has_entry(message'[name], key)
      ]_vars

C4_Witness ==
    /\ Returned /\ value = Bool(TRUE)
    /\ message.mapBool = {Item(key, Bool(TRUE))}
    /\ message.mapStr # {}

(***************************************************************************)
(* C5: on return of an operation's encoding, "size" holds the elements of  *)
(* the lists whose every element is an integer, in item order, "weights"   *)
(* the elements of the other lists, and no list-valued key has an entry in *)
(* the operation's parameter maps.                                         *)
(***************************************************************************)
AllIntegers(l) == \A i \in 1..Len(l) : l[i].t = "int"

RECURSIVE Flat(_, _, _)
\* The elements, in item order, of the list values that are all integers
\* (ints = TRUE) or not all integers (ints = FALSE).
Flat(items, i, ints) ==
    IF i > Len(items) THEN <<>>
    ELSE (IF items[i].v.t = "list" /\ AllIntegers(items[i].v.l) = ints
          THEN items[i].v.l ELSE <<>>)
            \o Flat(items, i + 1, ints)

C5_ListsSplitByIntegerness ==
    (Returned /\ operation.t = "dict") =>
        /\ message.size = Flat(operation.m, 1, TRUE)
        /\ message.weights = Flat(operation.m, 1, FALSE)
        /\ \A i \in 1..Len(operation.m) :
              operation.m[i].v.t = "list" => NoEntry(message.operationParam, operation.m[i].k)
(***************************************************************************)
(* C6: a nested map as the value of a generic parameter of a stage (a key  *)
(* other than "children", "operations", "sampler"), or of a non-list       *)
(* parameter of an operation or of the sampler, makes the call end in the  *)
(* unsupported-value error (ValueError) that names such a key.             *)
(***************************************************************************)
StructuralKeys == {"children", "operations", "sampler"}
\* The keys of an operation dict whose value is a nested map.
MapKeysOfOperation(o) ==
    IF o.t = "dict" THEN {o.m[i].k : i \in {j \in 1..Len(o.m) : o.m[j].v.t = "dict"}}
    ELSE {}

RECURSIVE MapKeys(_)
\* The keys, anywhere in the pipeline, the claim says the error may name.
MapKeys(d) ==
    {d.m[i].k : i \in {j \in 1..Len(d.m) :
                        d.m[j].k \notin StructuralKeys /\ d.m[j].v.t = "dict"}}
    \cup UNION {MapKeysOfOperation(OperationList(d)[i]) : i \in 1..Len(OperationList(d))}
    \cup (IF has_key(d, "sampler") /\ truthy(get(d, "sampler"))
          THEN MapKeysOfOperation(get(d, "sampler")) ELSE {})
    \cup UNION {IF IsStage(ChildList(d)[i]) THEN MapKeys(ChildList(d)[i]) ELSE {} :
                    i \in 1..Len(ChildList(d))}

C6_NestedMapRaises ==
    (Called /\ MapKeys(json_str) # {}) =>
        /\ RaisedError
        /\ raised.exc = "ValueError"
        /\ raised.key \in MapKeys(json_str)

(***************************************************************************)
(* C7: dispatch of a list under a key other than "operations" returns;     *)
(* a non-empty list becomes the mapStrList entry of the key, of the same   *)
(* length and order, each null replaced by "" and every other element      *)
(* kept, and no other map gets an entry for the key; an empty list changes *)
(* no map.                                                                 *)
(***************************************************************************)
C7_GenericList ==
    [][(pc = "call" /\ value.t = "list" /\ key # "operations") =>
        /\ pc' = "return"
        /\ IF value.l = <<>> THEN message' = message
           ELSE /\ \A name \in MapNames \ {"mapStrList"} :
                      message'[name] = message[name] /\ ~has_entry(message'[name], key)
                /\ {e \in message'.mapStrList : e.k # key} = message.mapStrList
                /\ \E e \in message'.mapStrList :
                      /\ e.k = key
                      /\ Len(e.v) = Len(value.l)
                      /\ \A i \in 1..Len(value.l) :
                            e.v[i] = IF value.l[i].t = "null" THEN Str("") ELSE value.l[i]
      ]_vars

C7_Witness ==
    /\ Returned /\ key = "op" /\ value = List(<<Str("a"), None>>)
    /\ entry(message.mapStrList, "op") = <<Str("a"), Str("")>>
    /\ message.mapInt # {}

(***************************************************************************)
(* C8, as claimed: after the call, returned or raised, the structure       *)
(* handed to the walk is as json.loads gave it.                            *)
(***************************************************************************)
C8_InputUnchanged == Called => dataset_dict = json_str

(***************************************************************************)
(* C8, amended: after the call, returned or raised, the root dict has lost *)
(* its "children" entry and nothing else; the popped list holds the same   *)
(* elements, each as it was or without its "children" entry and otherwise  *)
(* as it was (every non-empty one so on return, and an empty one as it     *)
(* was); no other state changed.                                           *)
(***************************************************************************)
C8_OnlyChildrenPopped ==
    Called =>
        /\ dataset_dict = WithoutChildren(json_str)
        /\ Idle
        /\ IF ~has_key(json_str, "children") THEN children = None
           ELSE IF get(json_str, "children").t # "list"
           THEN children = get(json_str, "children")
           ELSE /\ children.t = "list"
                /\ Len(children.l) = Len(ChildList(json_str))
                /\ \A i \in 1..Len(children.l) :
                      IF ~NonEmpty(ChildList(json_str)[i])
                      THEN children.l[i] = ChildList(json_str)[i]
                      ELSE \/ children.l[i] = WithoutChildren(ChildList(json_str)[i])
                           \/ ~Returned /\ children.l[i] = ChildList(json_str)[i]

\* A walk that raised after it popped "children" from the root and from a
\* first child that keeps its other keys, and before it reached a second.
C8_Witness ==
    /\ RaisedError
    /\ dataset_dict # json_str /\ dataset_dict.m # <<>>
    /\ Len(ChildList(json_str)) >= 2
    /\ children.l[1] # ChildList(json_str)[1] /\ children.l[1].m # <<>>
    /\ has_key(children.l[2], "children")

(***************************************************************************)
(* C9: for an encoded stage that holds just "operations", a list of        *)
(* supported operation dicts and nulls, the call does not fail on the      *)
(* nulls, and on return the node's operations are the encodings of the     *)
(* non-null elements, in list order.                                       *)
(***************************************************************************)
C9_NullOperationSkipped ==
    (Called /\ has_key(json_str, "children") /\ has_key(json_str, "operations")
            /\ get(json_str, "operations").t = "list"
            /\ MapKeys(json_str) = {} /\ Len(json_str.m) = 2) =>
        /\ raised.exc # "AttributeError"
        /\ Returned => dataset_graph_proto.operations =
              [i \in 1..Len(SelectSeq(OperationList(json_str), NotNull)) |->
                  EncodedOperation(SelectSeq(OperationList(json_str), NotNull)[i]).message]

(***************************************************************************)
(* C10: when the call ends in ValueError, every child node in a children   *)
(* sequence and every entry in an operations sequence of the tree under    *)
(* construction is completely populated from its input: it is the result   *)
(* of an encoding that returned.                                           *)
(***************************************************************************)
RECURSIVE Complete(_, _)
Complete(d, g) ==
    LET cs == SelectSeq(ChildList(d), NonEmpty)
        os == IF has_key(d, "children") THEN OperationList(d) ELSE <<>>
    IN  /\ \A i \in 1..Len(g.children) :
              /\ Encoded(cs[i]).raised = ""
              /\ g.children[i] = Encoded(cs[i]).message
              /\ Complete(cs[i], g.children[i])
        /\ \A i \in 1..Len(g.operations) :
              /\ EncodedOperation(os[i]).raised = ""
              /\ g.operations[i] = EncodedOperation(os[i]).message

C10_NoHalfWrittenNode ==
    (RaisedError /\ raised.exc = "ValueError") => Complete(json_str, dataset_graph_proto)

====
